---- MODULE Spec2Model ----
(***************************************************************************)
(* Model of one session of the Amplifier VS Code server: the session       *)
(* registry and the routes of routes/sessions.py, the SessionRunner of     *)
(* core/session_runner.py, the approval system of core/ux_systems.py and   *)
(* the hooks of hooks/approval_hook.py and hooks/streaming_bridge.py.      *)
(*                                                                         *)
(* Scheduling is asyncio's: one thread, coroutines interleave only where   *)
(* an await really suspends.  `await self.event_queue.put(e)` on the       *)
(* unbounded asyncio.Queue never suspends, so _emit_event is part of the   *)
(* step that calls it.  The suspension points are the engine calls         *)
(* (initialize, execute, cleanup) and the wait on the approval future.     *)
(* Each action below is one run of a coroutine from one suspension point   *)
(* to the next.                                                            *)
(*                                                                         *)
(* The engine (amplifier_core) is external: while a prompt executes it     *)
(* nondeterministically emits tool intents and content-block ends, returns *)
(* or raises.                                                              *)
(***************************************************************************)
EXTENDS Integers, Sequences, FiniteSets, TLC

\* ---- bounds of the model ------------------------------------------------
MaxPrompts == 2        \* prompt() tasks created by submit_prompt
MaxApprovals == 1      \* request_approval invocations
MaxDeletes == 1        \* delete_session calls that find the session
MaxToolIntents == 1    \* tool:pre signals that pass the gate without asking
MaxUsageReports == 1   \* content_block:end signals
MaxGateApprovals == 2  \* request_approval invocations in the approval specification
MaxConnections == 2    \* session_events connections opened
MaxKeepalives == 1     \* keepalives sent on one connection
MaxConcurrentDeletes == 2  \* delete_session calls in the deletion specification

NULL == "null"
NoPending == [approval_id |-> NULL, req |-> 0]   \* pending_approval is None
NoFuture == 0                                     \* approval_future is None
ApprovalId == "appr-id"                           \* f"appr-{id(self)}": one per session
Default == "deny"                                 \* the default both callers pass
SessionId == "s1"
PromptCalls == 1..MaxPrompts
Reqs == 1..MaxApprovals
GateReqs == 1..MaxGateApprovals
Conns == 1..MaxConnections
\* a connection not opened yet
NoStream == [pc |-> "none", connected |-> FALSE, dequeued |-> <<>>,
             delivered |-> <<>>]
DeleteCalls == 1..MaxDeletes
DeleteReqs == 1..MaxConcurrentDeletes
NoBlock == -1                                     \* current_block_index is None
ThinkingInit == [current_thinking |-> <<>>, current_block_index |-> NoBlock]
NoCall == [tool_name |-> NULL, input |-> NULL, directive |-> NULL]

\* the data of a signal, with the fields a kind of signal does not carry
\* left at their defaults; display_fails: the display system's method raises
\* when the handler calls it
Signal(kind, type, block_index, total_blocks, usage, text, display_fails) ==
    [signal |-> kind, type |-> type, block_index |-> block_index,
     total_blocks |-> total_blocks, usage |-> usage, text |-> text,
     display_fails |-> display_fails]

NoUsage == [present |-> FALSE, input_tokens |-> 0, output_tokens |-> 0]
NoBridgeCall ==
    [data |-> Signal(NULL, NULL, 0, 0, NoUsage, <<>>, FALSE), action |-> NULL]

\* ApprovalRequest.decision is a free string; these are the ones the UI sends
Decisions == {"Allow", "Deny", "AlwaysAllow"}

\* a confirmation-required set without the reserved git entry
APPROVAL_REQUIRED_TOOLS_no_git == {"write_file", "edit_file", "bash"}

APPROVAL_REQUIRED_TOOLS == {"write_file", "edit_file", "bash", "git"}

\* tool names the modelled engine uses: one gated, one not
EngineTools == {"bash", "read_file"}

VARIABLES
    sessions,            \* routes/sessions.py _sessions: the ids registered
    create_pc,           \* create_session: "none", "initializing", "created", "failed"
    session,             \* runner.session is not None
    hooks,               \* handler groups registered on the engine: "bridge", "gate"
    hook_unregisters,    \* len(runner._hook_unregisters)
    status,
    message_count,
    input_tokens,
    output_tokens,
    event_queue,         \* runner.event_queue, oldest first
    pending_approval,    \* NoPending or the dict stored by request_approval
    approval_future,     \* NoFuture or the request whose Future is stored
    always_allow_tools,
    token_state,         \* the bridge's accumulator
    futures,             \* per request_approval invocation: state of its Future
    prompt_call,         \* per prompt() task: its position
    approval_req,        \* per request_approval invocation: position, caller, result
    delete_call,         \* per delete_session call: its position
    tool_intents,        \* tool:pre signals forwarded so far
    usage_reports,       \* content_block:end signals so far
    gate_call,           \* a call of the gate's handler on its own: data and directive
    thinking_state,      \* the bridge's thinking_state dict
    bridge_call,         \* the last call of a bridge handler: its signal and the action returned
    signals,             \* engine signals the bridge has handled
    streams              \* per session_events connection: position, client state, items yielded

vars == <<sessions, create_pc, session, hooks, hook_unregisters, status,
          message_count, input_tokens, output_tokens, event_queue,
          pending_approval, approval_future, always_allow_tools, token_state,
          futures, prompt_call, approval_req, delete_call,
          tool_intents, usage_reports, gate_call, thinking_state, bridge_call,
          signals, streams>>

\* what only the bridge's handlers write
bridge_vars == <<thinking_state, bridge_call, signals>>

runner_vars == <<session, hooks, hook_unregisters, status, message_count,
                 input_tokens, output_tokens, event_queue, pending_approval,
                 approval_future, always_allow_tools>>

\* ---- events -------------------------------------------------------------
\* An event of the channel.  id is the submit_prompt call or the
\* request_approval invocation that emitted it (0: neither).
Event(name, id) ==
    [event |-> name, id |-> id, decision |-> NULL, reason |-> NULL,
     input_tokens |-> 0, output_tokens |-> 0, text |-> <<>>]

ApprovalEvent(name, id, decision, reason) ==
    [event |-> name, id |-> id, decision |-> decision, reason |-> reason,
     input_tokens |-> 0, output_tokens |-> 0, text |-> <<>>]

UsageEvent(name, id, tin, tout) ==
    [event |-> name, id |-> id, decision |-> NULL, reason |-> NULL,
     input_tokens |-> tin, output_tokens |-> tout, text |-> <<>>]

\* an event of the display system; text is its payload, a string as the
\* sequence of its characters
DisplayEvent(name, id, text) ==
    [event |-> name, id |-> id, decision |-> NULL, reason |-> NULL,
     input_tokens |-> 0, output_tokens |-> 0, text |-> text]

\* SessionRunner._emit_event: put on the unbounded queue
emit_event(q, e) == Append(q, e)

\* ---- initial state ------------------------------------------------------
\* reqs: the request_approval invocations the behaviour may make
\* the state after construction, for the given request_approval invocations
\* and delete_session calls
InitFor(reqs, dels) ==
    /\ sessions = {}
    /\ create_pc = "none"
    /\ session = FALSE
    /\ hooks = {}
    /\ hook_unregisters = 0
    /\ status = "idle"
    /\ message_count = 0
    /\ input_tokens = 0
    /\ output_tokens = 0
    /\ event_queue = <<>>
    /\ pending_approval = NoPending
    /\ approval_future = NoFuture
    /\ always_allow_tools = FALSE
    /\ token_state = [input_tokens |-> 0, output_tokens |-> 0]
    /\ futures = [r \in reqs |-> "none"]
    /\ prompt_call = [p \in PromptCalls |-> [pc |-> "none"]]
    /\ approval_req = [r \in reqs |-> [pc |-> "none", caller |-> 0, result |-> NULL]]
    /\ delete_call = [d \in dels |-> [pc |-> "none"]]
    /\ tool_intents = 0
    /\ usage_reports = 0
    /\ gate_call = NoCall
    /\ thinking_state = ThinkingInit
    /\ bridge_call = NoBridgeCall
    /\ signals = 0
    /\ streams = [c \in Conns |-> NoStream]

InitWith(reqs) == InitFor(reqs, DeleteCalls)

Init == InitWith(Reqs)

\* ---- create_session / SessionRunner.start -------------------------------
\* start() up to `await self.session.initialize()`, or up to the step that
\* raises: "profile" (before AmplifierSession exists), "mount" (before any
\* hook is registered), "gate" (register_approval_hook raises).
StartFails(stage) ==
    /\ session' = (stage # "profile")
    /\ hooks' = IF stage = "gate" THEN {"bridge"} ELSE {}
    /\ hook_unregisters' = IF stage = "gate" THEN 5 ELSE 0
    /\ status' = "error"
    /\ event_queue' = emit_event(event_queue, Event("error", 0))
    /\ create_pc' = "failed"

\* a start() that registers the gate only after initialize()
StartReachesInitialize_gate_late ==
    /\ session' = TRUE
    /\ hooks' = {"bridge"}
    /\ hook_unregisters' = 5
    /\ create_pc' = "initializing"
    /\ UNCHANGED <<status, event_queue>>

\* start() up to `await self.session.initialize()`: the five bridge handlers
\* and the gate are registered
StartReachesInitialize ==
    /\ session' = TRUE
    /\ hooks' = {"bridge", "gate"}
    /\ hook_unregisters' = 6
    /\ create_pc' = "initializing"
    /\ UNCHANGED <<status, event_queue>>

CreateSession ==
    /\ create_pc = "none"
    /\ \/ \E stage \in {"profile", "mount", "gate"} : StartFails(stage)
       \/ StartReachesInitialize
    /\ UNCHANGED <<sessions, message_count, input_tokens, output_tokens,
                   pending_approval, approval_future, always_allow_tools,
                   token_state, futures, prompt_call, approval_req, delete_call, tool_intents, usage_reports,
                   gate_call, bridge_vars, streams>>

\* session.initialize() returned: status idle, then the route registers the runner
InitializeReturns ==
    /\ create_pc = "initializing"
    /\ status' = "idle"
    /\ sessions' = sessions \cup {SessionId}
    /\ create_pc' = "created"
    /\ UNCHANGED <<session, hooks, hook_unregisters, message_count,
                   input_tokens, output_tokens, event_queue, pending_approval,
                   approval_future, always_allow_tools, token_state, futures,
                   prompt_call, approval_req, delete_call,
                   tool_intents, usage_reports,
                   gate_call, bridge_vars, streams>>

\* a start() whose handler re-raises without the status and the event
InitializeRaises_silent ==
    /\ create_pc = "initializing"
    /\ create_pc' = "failed"
    /\ UNCHANGED <<sessions, session, hooks, hook_unregisters, status,
                   message_count, input_tokens, output_tokens, event_queue,
                   pending_approval, approval_future, always_allow_tools,
                   token_state, futures, prompt_call, approval_req,
                   delete_call, tool_intents, usage_reports, gate_call, bridge_vars, streams>>

\* session.initialize() raised: error status and event, the id is not registered
InitializeRaises ==
    /\ create_pc = "initializing"
    /\ status' = "error"
    /\ event_queue' = emit_event(event_queue, Event("error", 0))
    /\ create_pc' = "failed"
    /\ UNCHANGED <<sessions, session, hooks, hook_unregisters, message_count,
                   input_tokens, output_tokens, pending_approval,
                   approval_future, always_allow_tools, token_state, futures,
                   prompt_call, approval_req, delete_call,
                   tool_intents, usage_reports,
                   gate_call, bridge_vars, streams>>

\* ---- submit_prompt / SessionRunner.prompt -------------------------------
\* the route's answer: 404 unknown id, 409 busy, 200 task created
SubmitPromptResponse(known, st) ==
    IF ~known THEN 404
    ELSE IF st = "processing" THEN 409
    ELSE 200

\* a call answered 200 creates the task; a 404 or 409 changes nothing
SubmitPrompt(p) ==
    /\ prompt_call[p].pc = "none"
    /\ \A q \in PromptCalls : q < p => prompt_call[q].pc # "none"
    /\ IF SubmitPromptResponse(SessionId \in sessions, status) = 200
       THEN prompt_call' = [prompt_call EXCEPT ![p].pc = "created"]
       ELSE UNCHANGED prompt_call
    /\ UNCHANGED <<sessions, create_pc, runner_vars, token_state, futures,
                   approval_req, delete_call, tool_intents, usage_reports,
                   gate_call, bridge_vars, streams>>

\* a prompt() that only refuses a session that is processing, as the route does
PromptAccepts_busy_only(sess, st) == sess /\ st # "processing"

\* prompt()'s two preconditions
PromptAccepts(sess, st) == sess /\ st = "idle"

\* a prompt() whose status check sits inside the try block: the refusal goes
\* through the handler that sets error and emits an error event
PromptRejected_in_try(p) ==
    /\ prompt_call' = [prompt_call EXCEPT ![p].pc = "rejected"]
    /\ status' = "error"
    /\ event_queue' = emit_event(event_queue, Event("error", p))
    /\ UNCHANGED message_count

\* prompt() raises before its try block
PromptRejected(p) ==
    /\ prompt_call' = [prompt_call EXCEPT ![p].pc = "rejected"]
    /\ UNCHANGED <<status, message_count, event_queue>>

\* an acceptance that forgets to count the message
PromptAccepted_uncounted(p) ==
    /\ status' = "processing"
    /\ UNCHANGED message_count
    /\ event_queue' = emit_event(event_queue, Event("prompt:submit", p))
    /\ prompt_call' = [prompt_call EXCEPT ![p].pc = "executing"]

\* prompt() up to `await self.session.execute(...)`
PromptAccepted(p) ==
    /\ status' = "processing"
    /\ message_count' = message_count + 1
    /\ event_queue' = emit_event(event_queue, Event("prompt:submit", p))
    /\ prompt_call' = [prompt_call EXCEPT ![p].pc = "executing"]

\* the task created by submit_prompt starts running
PromptStart(p) ==
    /\ prompt_call[p].pc = "created"
    /\ IF PromptAccepts(session, status) THEN PromptAccepted(p) ELSE PromptRejected(p)
    /\ UNCHANGED <<sessions, create_pc, session, hooks, hook_unregisters,
                   input_tokens, output_tokens, pending_approval,
                   approval_future, always_allow_tools, token_state, futures,
                   approval_req, delete_call, tool_intents,
                   usage_reports,
                   gate_call, bridge_vars, streams>>

\* execute() returned: read the usage capability, emit prompt:complete, go idle.
\* After stop() self.session is None, the lookup raises inside the inner try
\* and the counters keep their values.
PromptCompletes(p) ==
    /\ prompt_call[p].pc = "executing"
    /\ LET tin == IF session THEN token_state.input_tokens ELSE input_tokens
           tout == IF session THEN token_state.output_tokens ELSE output_tokens
       IN /\ input_tokens' = tin
          /\ output_tokens' = tout
          /\ event_queue' = emit_event(event_queue,
                                UsageEvent("prompt:complete", p, tin, tout))
    /\ status' = "idle"
    /\ prompt_call' = [prompt_call EXCEPT ![p].pc = "done"]
    /\ UNCHANGED <<sessions, create_pc, session, hooks, hook_unregisters,
                   message_count, pending_approval, approval_future,
                   always_allow_tools, token_state, futures, approval_req, delete_call, tool_intents, usage_reports,
                   gate_call, bridge_vars, streams>>

\* execute() raised: error status, error event, re-raise
PromptFails(p) ==
    /\ prompt_call[p].pc = "executing"
    /\ status' = "error"
    /\ event_queue' = emit_event(event_queue, Event("error", p))
    /\ prompt_call' = [prompt_call EXCEPT ![p].pc = "failed"]
    /\ UNCHANGED <<sessions, create_pc, session, hooks, hook_unregisters,
                   message_count, input_tokens, output_tokens,
                   pending_approval, approval_future, always_allow_tools,
                   token_state, futures, approval_req, delete_call, tool_intents, usage_reports,
                   gate_call, bridge_vars, streams>>

\* ---- approval gate and approval system ----------------------------------
\* a gate that never looks at the always-allow flag
approval_gate_hook_ignores_flag(tool_name, always_allow) ==
    IF tool_name \in {NULL, ""} THEN "continue"
    ELSE IF tool_name \notin APPROVAL_REQUIRED_TOOLS THEN "continue"
    ELSE "ask_user"

\* approval_gate_hook: the directive for a tool:pre signal
approval_gate_hook(tool_name, always_allow) ==
    IF tool_name \in {NULL, ""} THEN "continue"
    ELSE IF tool_name \notin APPROVAL_REQUIRED_TOOLS THEN "continue"
    ELSE IF always_allow THEN "continue"
    ELSE "ask_user"

\* request_approval up to `await asyncio.wait_for(...)`: a fresh Future, the
\* pending record, the status and the approval:required event
RequestApprovalBegins(r, caller) ==
    /\ futures' = [futures EXCEPT ![r] = "pending"]
    /\ approval_future' = r
    /\ pending_approval' = [approval_id |-> ApprovalId, req |-> r]
    /\ status' = "awaiting_approval"
    /\ event_queue' = emit_event(event_queue, Event("approval:required", r))
    /\ approval_req' = [approval_req EXCEPT ![r] =
                           [pc |-> "waiting", caller |-> caller, result |-> NULL]]

\* the engine signals a tool intent while executing prompt p.  The gate
\* (priority 500) answers first; on ask_user the engine calls
\* request_approval in the prompt's task, otherwise the bridge forwards the
\* signal as a tool:pre display event.  (Whether the engine still runs the
\* bridge's handler for a signal the gate asked about is the engine's
\* dispatch, outside this repository; no display event is modelled there.)
EngineToolPre(p, tool) ==
    /\ prompt_call[p].pc = "executing"
    /\ LET directive == IF "gate" \in hooks
                        THEN approval_gate_hook(tool, always_allow_tools)
                        ELSE "continue"
       IN IF directive = "ask_user"
          THEN /\ \E r \in DOMAIN approval_req :
                    /\ approval_req[r].pc = "none"
                    /\ \A q \in DOMAIN approval_req :
                          q < r => approval_req[q].pc # "none"
                    /\ RequestApprovalBegins(r, p)
               /\ prompt_call' = [prompt_call EXCEPT ![p].pc = "in_gate"]
               /\ UNCHANGED tool_intents
          ELSE /\ tool_intents < MaxToolIntents
               /\ tool_intents' = tool_intents + 1
               /\ event_queue' = IF "bridge" \in hooks
                                 THEN emit_event(event_queue, Event("tool:pre", p))
                                 ELSE event_queue
               /\ UNCHANGED <<futures, approval_future, pending_approval,
                              status, approval_req, prompt_call>>
    /\ UNCHANGED <<sessions, create_pc, session, hooks, hook_unregisters,
                   message_count, input_tokens, output_tokens,
                   always_allow_tools, token_state, delete_call, usage_reports,
                   gate_call, bridge_vars, streams>>

\* test_approval_flow: the route creates a task that will call request_approval
TestApproval(r) ==
    /\ SessionId \in sessions
    /\ approval_req[r].pc = "none"
    /\ \A q \in DOMAIN approval_req : q < r => approval_req[q].pc # "none"
    /\ approval_req' = [approval_req EXCEPT ![r].pc = "created"]
    /\ UNCHANGED <<sessions, create_pc, runner_vars, token_state, futures,
                   prompt_call, delete_call, tool_intents,
                   usage_reports,
                   gate_call, bridge_vars, streams>>

\* that task starts running
TestApprovalStart(r) ==
    /\ approval_req[r].pc = "created"
    /\ RequestApprovalBegins(r, 0)
    /\ UNCHANGED <<sessions, create_pc, session, hooks, hook_unregisters,
                   message_count, input_tokens, output_tokens,
                   always_allow_tools, token_state, prompt_call, delete_call, tool_intents, usage_reports,
                   gate_call, bridge_vars, streams>>

\* the coroutine that called request_approval goes on with the decision
Resume(caller) ==
    IF caller = 0 THEN prompt_call
    ELSE [prompt_call EXCEPT ![caller].pc = "executing"]

\* wait_for returned the Future's result: approval:granted, return it
ApprovalGranted(r) ==
    /\ approval_req[r].pc = "waiting"
    /\ futures[r] \notin {"none", "pending", "cancelled"}
    /\ event_queue' = emit_event(event_queue,
                          ApprovalEvent("approval:granted", r, futures[r], NULL))
    /\ approval_req' = [approval_req EXCEPT ![r].pc = "returned",
                                            ![r].result = futures[r]]
    /\ prompt_call' = Resume(approval_req[r].caller)
    /\ UNCHANGED <<sessions, create_pc, session, hooks, hook_unregisters,
                   status, message_count, input_tokens, output_tokens,
                   pending_approval, approval_future, always_allow_tools,
                   token_state, futures, delete_call,
                   tool_intents, usage_reports,
                   gate_call, bridge_vars, streams>>

\* a timer that stop() would disarm: it fires only while the id is registered
TimerFires_while_registered(r) ==
    /\ SessionId \in sessions
    /\ approval_req[r].pc = "waiting"
    /\ futures[r] = "pending"
    /\ futures' = [futures EXCEPT ![r] = "cancelled"]
    /\ approval_req' = [approval_req EXCEPT ![r].pc = "timed_out"]
    /\ UNCHANGED <<sessions, create_pc, runner_vars, token_state, prompt_call, delete_call, tool_intents, usage_reports,
                   gate_call, bridge_vars, streams>>

\* the timer of wait_for fires on a Future nobody resolved: the Future is
\* cancelled and the waiter is scheduled to resume with TimeoutError.  Until
\* it resumes the runner still holds the cancelled Future and the pending
\* record.
TimerFires(r) ==
    /\ approval_req[r].pc = "waiting"
    /\ futures[r] = "pending"
    /\ futures' = [futures EXCEPT ![r] = "cancelled"]
    /\ approval_req' = [approval_req EXCEPT ![r].pc = "timed_out"]
    /\ UNCHANGED <<sessions, create_pc, runner_vars, token_state, prompt_call, delete_call, tool_intents, usage_reports,
                   gate_call, bridge_vars, streams>>

\* a timeout handler that forgets the Future
TimeoutClears_pending_only(pending, fut) == <<NoPending, fut>>

\* what the timeout handler leaves in the runner's two approval fields
TimeoutClears(pending, fut) == <<NoPending, NoFuture>>

\* a timeout handler that reports the default as a grant
TimeoutEvent_granted(r, default) ==
    ApprovalEvent("approval:granted", r, default, NULL)

\* the event of the timeout handler
TimeoutEvent(r, default) ==
    ApprovalEvent("approval:denied", r, default, "timeout")

\* the waiter resumes in `except asyncio.TimeoutError`
ApprovalTimesOut(r) ==
    /\ approval_req[r].pc = "timed_out"
    /\ event_queue' = emit_event(event_queue, TimeoutEvent(r, Default))
    /\ pending_approval' = TimeoutClears(pending_approval, approval_future)[1]
    /\ approval_future' = TimeoutClears(pending_approval, approval_future)[2]
    /\ approval_req' = [approval_req EXCEPT ![r].pc = "returned",
                                            ![r].result = Default]
    /\ prompt_call' = Resume(approval_req[r].caller)
    /\ UNCHANGED <<sessions, create_pc, session, hooks, hook_unregisters,
                   status, message_count, input_tokens, output_tokens,
                   always_allow_tools, token_state, futures, delete_call, tool_intents, usage_reports,
                   gate_call, bridge_vars, streams>>

\* ---- submit_approval / SessionRunner.resolve_approval -------------------
\* resolve_approval when both fields are set and the Future is unresolved
ResolveApprovalSucceeds(decision) ==
    /\ always_allow_tools' = (always_allow_tools \/ decision = "AlwaysAllow")
    /\ futures' = [futures EXCEPT ![approval_future] =
                      IF decision = "AlwaysAllow" THEN "Allow" ELSE decision]
    /\ pending_approval' = NoPending
    /\ approval_future' = NoFuture
    /\ status' = IF status = "awaiting_approval" THEN "processing" ELSE status

\* resolve_approval when set_result raises InvalidStateError: the Future was
\* cancelled by the timer; the always-allow flag is already written
ResolveApprovalRaises(decision) ==
    /\ always_allow_tools' = (always_allow_tools \/ decision = "AlwaysAllow")
    /\ UNCHANGED <<futures, pending_approval, approval_future, status>>

\* the route's answer: 404 unknown id, 400 nothing pending, 500 when
\* resolve_approval raises (no Future stored, or set_result on a Future that
\* is no longer pending), 200 otherwise
SubmitApprovalResponse(known, pending, fut, fs) ==
    IF ~known THEN 404
    ELSE IF pending = NoPending THEN 400
    ELSE IF fut = NoFuture THEN 500
    ELSE IF fs[fut] # "pending" THEN 500
    ELSE 200

\* a route without the 400 guard over a resolve_approval that writes the
\* always-allow flag before it looks for a pending approval
SubmitApproval_flag_first(decision) ==
    /\ LET resp == SubmitApprovalResponse(SessionId \in sessions,
                       pending_approval, approval_future, futures)
       IN IF resp = 200 THEN ResolveApprovalSucceeds(decision)
          ELSE IF resp \in {400, 500}
          THEN ResolveApprovalRaises(decision)
          ELSE UNCHANGED <<always_allow_tools, futures, pending_approval,
                           approval_future, status>>
    /\ UNCHANGED <<sessions, create_pc, session, hooks, hook_unregisters,
                   message_count, input_tokens, output_tokens, event_queue,
                   token_state, prompt_call, approval_req, delete_call,
                   tool_intents, usage_reports,
                   gate_call, bridge_vars, streams>>

\* submit_approval: the checks of the route, then resolve_approval
SubmitApproval(decision) ==
    /\ LET resp == SubmitApprovalResponse(SessionId \in sessions,
                       pending_approval, approval_future, futures)
       IN IF resp = 200 THEN ResolveApprovalSucceeds(decision)
          ELSE IF resp = 500 /\ approval_future # NoFuture
          THEN ResolveApprovalRaises(decision)
          ELSE UNCHANGED <<always_allow_tools, futures, pending_approval,
                           approval_future, status>>
    /\ UNCHANGED <<sessions, create_pc, session, hooks, hook_unregisters,
                   message_count, input_tokens, output_tokens, event_queue,
                   token_state, prompt_call, approval_req, delete_call,
                   tool_intents, usage_reports,
                   gate_call, bridge_vars, streams>>

\* ---- hook bridge: token accounting --------------------------------------
\* on_content_block_end, token part: total_blocks = 0 stands for a missing
\* total_blocks, usage.present = FALSE for a missing or empty usage payload
\* a bridge that takes every block end for the last one
is_last_block_always(block_index, total_blocks) == TRUE

is_last_block(block_index, total_blocks) ==
    IF total_blocks # 0 THEN block_index = total_blocks - 1 ELSE FALSE

on_content_block_end_tokens(ts, block_index, total_blocks, usage) ==
    IF usage.present /\ is_last_block(block_index, total_blocks)
    THEN [input_tokens |-> ts.input_tokens + usage.input_tokens,
          output_tokens |-> ts.output_tokens + usage.output_tokens]
    ELSE ts

Usages == {[present |-> FALSE, input_tokens |-> 0, output_tokens |-> 0],
           [present |-> TRUE, input_tokens |-> 10, output_tokens |-> 5]}

\* the engine signals the end of a content block while executing prompt p
EngineBlockEnd(p, block_index, total_blocks, usage) ==
    /\ prompt_call[p].pc = "executing"
    /\ usage_reports < MaxUsageReports
    /\ usage_reports' = usage_reports + 1
    /\ token_state' = IF "bridge" \in hooks
                      THEN on_content_block_end_tokens(token_state, block_index,
                                                       total_blocks, usage)
                      ELSE token_state
    /\ UNCHANGED <<sessions, create_pc, runner_vars, futures, prompt_call,
                   approval_req, delete_call, tool_intents,
                   gate_call, bridge_vars, streams>>

\* ---- delete_session / SessionRunner.stop --------------------------------
\* a variant whose route leaves the registry alone
StopFinishes_keeps_id(d, q) ==
    /\ session' = FALSE
    /\ status' = "stopped"
    /\ event_queue' = emit_event(q, UsageEvent("session:end", 0,
                                               input_tokens, output_tokens))
    /\ sessions' = sessions
    /\ delete_call' = [delete_call EXCEPT ![d].pc = "done"]

\* stop() after the cleanup: session = None, stopped, session:end; then the
\* route removes the id and answers 200 ("done"), or, when a concurrent call
\* has removed it already, `del` raises, the handler `pop`s and answers 500
\* ("failed")
StopFinishes(d, q) ==
    /\ session' = FALSE
    /\ status' = "stopped"
    /\ event_queue' = emit_event(q, UsageEvent("session:end", 0,
                                               input_tokens, output_tokens))
    /\ sessions' = sessions \ {SessionId}
    /\ delete_call' = [delete_call EXCEPT ![d].pc =
                          IF SessionId \in sessions THEN "done" ELSE "failed"]

\* the route found the id and stop() runs to `await self.session.cleanup()`;
\* kept: the handlers whose unregister function raised.  (For an unknown id
\* the route answers 404 and nothing changes.)
DeleteSession(d) ==
    /\ SessionId \in sessions
    /\ delete_call[d].pc = "none"
    /\ \A e \in DOMAIN delete_call : e < d => delete_call[e].pc # "none"
    /\ \E kept \in SUBSET hooks : hooks' = kept
    /\ hook_unregisters' = 0
    /\ IF session
       THEN /\ delete_call' = [delete_call EXCEPT ![d].pc = "cleanup"]
            /\ UNCHANGED <<sessions, session, status, event_queue>>
       ELSE StopFinishes(d, event_queue)
    /\ UNCHANGED <<create_pc, message_count, input_tokens, output_tokens,
                   pending_approval, approval_future, always_allow_tools,
                   token_state, futures, prompt_call, approval_req,
                   tool_intents, usage_reports,
                   gate_call, bridge_vars, streams>>

\* a stop() that lets the failure of session.cleanup() through: the route
\* catches it and removes the id, the runner is left as it was
CleanupEnds_propagates(d, raised) ==
    /\ delete_call[d].pc = "cleanup"
    /\ IF raised
       THEN /\ sessions' = sessions \ {SessionId}
            /\ delete_call' = [delete_call EXCEPT ![d].pc = "done"]
            /\ UNCHANGED <<session, status, event_queue>>
       ELSE StopFinishes(d, event_queue)
    /\ UNCHANGED <<create_pc, hooks, hook_unregisters, message_count,
                   input_tokens, output_tokens, pending_approval,
                   approval_future, always_allow_tools, token_state, futures,
                   prompt_call, approval_req, tool_intents, usage_reports,
                   gate_call, bridge_vars, streams>>

\* session.cleanup() returned, or raised (then a warning event comes first)
CleanupEnds(d, raised) ==
    /\ delete_call[d].pc = "cleanup"
    /\ StopFinishes(d, IF raised
                       THEN emit_event(event_queue, Event("warning", 0))
                       ELSE event_queue)
    /\ UNCHANGED <<create_pc, hooks, hook_unregisters, message_count,
                   input_tokens, output_tokens, pending_approval,
                   approval_future, always_allow_tools, token_state, futures,
                   prompt_call, approval_req, tool_intents, usage_reports,
                   gate_call, bridge_vars, streams>>

\* ---- specification ------------------------------------------------------
\* every operation except the test-approval endpoint
ProdNext ==
    \/ CreateSession
    \/ InitializeReturns
    \/ InitializeRaises
    \/ \E p \in PromptCalls : SubmitPrompt(p)
    \/ \E p \in PromptCalls : PromptStart(p)
    \/ \E p \in PromptCalls : PromptCompletes(p)
    \/ \E p \in PromptCalls : PromptFails(p)
    \/ \E p \in PromptCalls, tool \in EngineTools : EngineToolPre(p, tool)
    \/ \E p \in PromptCalls, i \in 0..1, n \in 0..2, u \in Usages :
          EngineBlockEnd(p, i, n, u)
    \/ \E r \in Reqs : ApprovalGranted(r)
    \/ \E r \in Reqs : TimerFires(r)
    \/ \E r \in Reqs : ApprovalTimesOut(r)
    \/ \E d \in Decisions : SubmitApproval(d)
    \/ \E d \in DeleteCalls : DeleteSession(d)
    \/ \E d \in DeleteCalls, raised \in BOOLEAN : CleanupEnds(d, raised)

Next ==
    \/ ProdNext
    \/ \E r \in Reqs : TestApproval(r)
    \/ \E r \in Reqs : TestApprovalStart(r)

\* the session with every route
Spec == Init /\ [][Next]_vars

\* the session as the extension drives it, without the test-approval route
ProdSpec == Init /\ [][ProdNext]_vars

\* ---- the approval specification ----------------------------------------
\* A session that is not deleted, with room for a second request_approval:
\* prompts, the gate, the test-approval route, resolutions and timeouts.
GateInit == InitWith(GateReqs)

GateNext ==
    \/ CreateSession
    \/ InitializeReturns
    \/ InitializeRaises
    \/ \E p \in PromptCalls : SubmitPrompt(p)
    \/ \E p \in PromptCalls : PromptStart(p)
    \/ \E p \in PromptCalls : PromptCompletes(p)
    \/ \E p \in PromptCalls : PromptFails(p)
    \/ \E p \in PromptCalls, tool \in EngineTools : EngineToolPre(p, tool)
    \/ \E r \in GateReqs : TestApproval(r)
    \/ \E r \in GateReqs : TestApprovalStart(r)
    \/ \E r \in GateReqs : ApprovalGranted(r)
    \/ \E r \in GateReqs : TimerFires(r)
    \/ \E r \in GateReqs : ApprovalTimesOut(r)
    \/ \E d \in Decisions : SubmitApproval(d)

GateSpec == GateInit /\ [][GateNext]_vars

\* ---- the gate's handler on its own --------------------------------------
\* tool_name of a tool:pre signal: missing, empty, the four names of the
\* set, and names outside it (other tools, another case, a longer name)
ToolNames == {NULL, "", "write_file", "edit_file", "bash", "git",
              "read_file", "glob", "task", "Bash", "write_files"}

\* the `input` of the signal: missing, a file write, a shell command
ToolInputs == {NULL, "file_path+content", "command"}

\* a runner after construction with either value of the always-allow flag,
\* and a tool:pre signal about to be handled
HookInit ==
    /\ gate_call \in [tool_name : ToolNames, input : ToolInputs, directive : {NULL}]
    /\ always_allow_tools \in BOOLEAN
    /\ sessions = {}
    /\ create_pc = "none"
    /\ session = FALSE
    /\ hooks = {}
    /\ hook_unregisters = 0
    /\ status = "idle"
    /\ message_count = 0
    /\ input_tokens = 0
    /\ output_tokens = 0
    /\ event_queue = <<>>
    /\ pending_approval = NoPending
    /\ approval_future = NoFuture
    /\ token_state = [input_tokens |-> 0, output_tokens |-> 0]
    /\ futures = [r \in Reqs |-> "none"]
    /\ prompt_call = [p \in PromptCalls |-> [pc |-> "none"]]
    /\ approval_req = [r \in Reqs |-> [pc |-> "none", caller |-> 0, result |-> NULL]]
    /\ delete_call = [d \in DeleteCalls |-> [pc |-> "none"]]
    /\ tool_intents = 0
    /\ usage_reports = 0
    /\ thinking_state = ThinkingInit
    /\ bridge_call = NoBridgeCall
    /\ signals = 0
    /\ streams = [c \in Conns |-> NoStream]

\* the handler runs on the signal and returns its HookResult action
GateHookCall ==
    /\ gate_call.directive = NULL
    /\ gate_call' = [gate_call EXCEPT !.directive =
                        approval_gate_hook(gate_call.tool_name, always_allow_tools)]
    /\ UNCHANGED <<sessions, create_pc, runner_vars, token_state, futures,
                   prompt_call, approval_req, delete_call, tool_intents,
                   usage_reports, bridge_vars, streams>>

HookNext == GateHookCall

HookSpec == HookInit /\ [][HookNext]_vars

\* ---- the hook bridge's handlers -----------------------------------------
MaxSignals == 4        \* engine signals handled by the bridge

BlockIndexes == 0..1
\* strings as sequences of characters; <<>> is the empty (falsy) string
Texts == {<<>>, <<"a">>, <<"b">>}
BlockTypes == {"thinking", "text"}
DeltaTypes == {"text_delta", "thinking_delta"}

\* on_content_block_start: a thinking block starts a fresh accumulation
on_content_block_start(ths, block_type, block_index) ==
    IF block_type = "thinking"
    THEN [current_thinking |-> <<>>, current_block_index |-> block_index]
    ELSE ths

\* a variant that puts each new delta in front of the accumulated text
on_content_block_delta_thinking_prepends(ths, delta_type, text) ==
    IF delta_type = "thinking_delta" /\ text # <<>>
    THEN [ths EXCEPT !.current_thinking = text \o @]
    ELSE ths

\* on_content_block_delta, thinking part: a non-empty thinking_delta is
\* appended, whichever block it names
on_content_block_delta_thinking(ths, delta_type, text) ==
    IF delta_type = "thinking_delta" /\ text # <<>>
    THEN [ths EXCEPT !.current_thinking = @ \o text]
    ELSE ths

\* on_content_block_end, thinking part: the content to show for the tracked
\* block, the accumulated deltas or else the text of the block itself
thinking_content(ths, block_text) ==
    IF ths.current_thinking # <<>> THEN ths.current_thinking ELSE block_text

\* display_thinking is called, and the state reset, only for the tracked
\* block with a non-empty content
flushes_thinking(ths, block_index, block_text) ==
    /\ ths.current_block_index = block_index
    /\ thinking_content(ths, block_text) # <<>>

\* the engine delivers a signal to the bridge while prompt p executes
BridgeHandles(p) ==
    /\ "bridge" \in hooks
    /\ prompt_call[p].pc = "executing"
    /\ signals < MaxSignals
    /\ signals' = signals + 1
    /\ UNCHANGED <<sessions, create_pc, session, hooks, hook_unregisters,
                   status, message_count, input_tokens, output_tokens,
                   pending_approval, approval_future, always_allow_tools,
                   futures, prompt_call, approval_req, delete_call,
                   tool_intents, usage_reports, gate_call, streams>>

\* the display system's method emits its event, or raises and the handler
\* logs the error
Forward(p, name, text, display_fails) ==
    IF display_fails THEN event_queue
    ELSE emit_event(event_queue, DisplayEvent(name, p, text))

OnContentBlockStart(p, block_type, block_index) ==
    /\ BridgeHandles(p)
    /\ thinking_state' = on_content_block_start(thinking_state, block_type,
                                                block_index)
    /\ bridge_call' = [data |-> Signal("content_block:start", block_type,
                                       block_index, 0, NoUsage, <<>>, FALSE),
                       action |-> "continue"]
    /\ UNCHANGED <<token_state, event_queue>>

OnContentBlockDelta(p, delta_type, text, display_fails) ==
    /\ BridgeHandles(p)
    /\ thinking_state' = on_content_block_delta_thinking(thinking_state,
                                                         delta_type, text)
    /\ event_queue' = IF delta_type = "text_delta" /\ text # <<>>
                      THEN Forward(p, "content_block:delta", text, display_fails)
                      ELSE event_queue
    /\ bridge_call' = [data |-> Signal("content_block:delta", delta_type, 0, 0,
                                       NoUsage, text, display_fails),
                       action |-> "continue"]
    /\ UNCHANGED token_state

OnContentBlockEnd(p, block_index, total_blocks, usage, block_text, display_fails) ==
    /\ BridgeHandles(p)
    /\ token_state' = on_content_block_end_tokens(token_state, block_index,
                                                  total_blocks, usage)
    /\ IF flushes_thinking(thinking_state, block_index, block_text)
       THEN /\ event_queue' = Forward(p, "thinking:delta",
                                      thinking_content(thinking_state, block_text),
                                      display_fails)
            /\ thinking_state' = ThinkingInit
       ELSE UNCHANGED <<event_queue, thinking_state>>
    /\ bridge_call' = [data |-> Signal("content_block:end", NULL, block_index,
                                       total_blocks, usage, block_text,
                                       display_fails),
                       action |-> "continue"]

OnToolPre(p, display_fails) ==
    /\ BridgeHandles(p)
    /\ event_queue' = Forward(p, "tool:pre", <<>>, display_fails)
    /\ bridge_call' = [data |-> Signal("tool:pre", NULL, 0, 0, NoUsage, <<>>,
                                       display_fails),
                       action |-> "continue"]
    /\ UNCHANGED <<token_state, thinking_state>>

\* a variant without the try around display_tool_end: its failure leaves
\* the handler as an exception
OnToolPost_unguarded(p, display_fails) ==
    /\ BridgeHandles(p)
    /\ event_queue' = Forward(p, "tool:post", <<>>, display_fails)
    /\ bridge_call' = [data |-> Signal("tool:post", NULL, 0, 0, NoUsage, <<>>,
                                       display_fails),
                       action |-> IF display_fails THEN "raise" ELSE "continue"]
    /\ UNCHANGED <<token_state, thinking_state>>

OnToolPost(p, display_fails) ==
    /\ BridgeHandles(p)
    /\ event_queue' = Forward(p, "tool:post", <<>>, display_fails)
    /\ bridge_call' = [data |-> Signal("tool:post", NULL, 0, 0, NoUsage, <<>>,
                                       display_fails),
                       action |-> "continue"]
    /\ UNCHANGED <<token_state, thinking_state>>

\* a session that starts and runs one prompt, during which the engine sends
\* the bridge any sequence of signals
BridgeNext ==
    \/ CreateSession
    \/ InitializeReturns
    \/ InitializeRaises
    \/ SubmitPrompt(1)
    \/ PromptStart(1)
    \/ \E t \in BlockTypes, i \in BlockIndexes : OnContentBlockStart(1, t, i)
    \/ \E t \in DeltaTypes, x \in Texts, f \in BOOLEAN :
          OnContentBlockDelta(1, t, x, f)
    \/ \E i \in BlockIndexes, n \in 0..2, u \in Usages, x \in Texts, f \in BOOLEAN :
          OnContentBlockEnd(1, i, n, u, x, f)
    \/ \E f \in BOOLEAN : OnToolPre(1, f)
    \/ \E f \in BOOLEAN : OnToolPost(1, f)

BridgeSpec == Init /\ [][BridgeNext]_vars

\* ---- the event stream: session_events ------------------------------------
\* json.dumps of an event: the text that lists its fields
json_dumps(e) ==
    <<e.event, e.id, e.decision, e.reason, e.input_tokens, e.output_tokens,
      e.text>>

\* the items event_generator yields
Message(e) == [event |-> "message", data |-> json_dumps(e)]
StartItem == Message(Event("session:start", 0))
Keepalive == [event |-> "ping", data |-> <<"keepalive">>]

Keepalives(c) ==
    Len(SelectSeq(streams[c].delivered, LAMBDA i : i.event = "ping"))

StreamStep(c) ==
    UNCHANGED <<sessions, create_pc, session, hooks, hook_unregisters, status,
                message_count, input_tokens, output_tokens, pending_approval,
                approval_future, always_allow_tools, token_state, futures,
                prompt_call, approval_req, delete_call, tool_intents,
                usage_reports, gate_call, bridge_vars>>

\* 200 with the stream, or 404 for an id that is not registered
SessionEventsResponse(known) == IF known THEN 200 ELSE 404

\* the route finds the runner and the generator yields session:start
StreamOpens(c) ==
    /\ SessionEventsResponse(SessionId \in sessions) = 200
    /\ streams[c].pc = "none"
    /\ \A b \in Conns : b < c => streams[b].pc # "none"
    /\ streams' = [streams EXCEPT ![c] =
                      [pc |-> "checking", connected |-> TRUE,
                       dequeued |-> <<>>, delivered |-> <<StartItem>>]]
    /\ UNCHANGED event_queue
    /\ StreamStep(c)

\* the client goes away
ClientDisconnects(c) ==
    /\ streams[c].pc \notin {"none", "closed"}
    /\ streams[c].connected
    /\ streams' = [streams EXCEPT ![c].connected = FALSE]
    /\ UNCHANGED event_queue
    /\ StreamStep(c)

\* `if await request.is_disconnected(): break`, else on to wait_for
StreamChecks(c) ==
    /\ streams[c].pc = "checking"
    /\ streams' = [streams EXCEPT ![c].pc =
                      IF streams[c].connected THEN "waiting" ELSE "closed"]
    /\ UNCHANGED event_queue
    /\ StreamStep(c)

\* a variant of the dequeue that takes the newest event
StreamGets_newest(c) ==
    /\ streams[c].pc = "waiting"
    /\ event_queue # <<>>
    /\ LET e == event_queue[Len(event_queue)]
       IN streams' = [streams EXCEPT ![c].pc = "checking",
                                     ![c].dequeued = Append(@, e),
                                     ![c].delivered = Append(@, Message(e))]
    /\ event_queue' = SubSeq(event_queue, 1, Len(event_queue) - 1)
    /\ StreamStep(c)

\* queue.get() returns the oldest event and the generator yields it
StreamGets(c) ==
    /\ streams[c].pc = "waiting"
    /\ event_queue # <<>>
    /\ LET e == Head(event_queue)
       IN streams' = [streams EXCEPT ![c].pc = "checking",
                                     ![c].dequeued = Append(@, e),
                                     ![c].delivered = Append(@, Message(e))]
    /\ event_queue' = Tail(event_queue)
    /\ StreamStep(c)

\* a variant whose timer fires whatever the queue holds
StreamTimerFires_any(c) ==
    /\ streams[c].pc = "waiting"
    /\ Keepalives(c) < MaxKeepalives
    /\ streams' = [streams EXCEPT ![c].pc = "timed_out"]
    /\ UNCHANGED event_queue
    /\ StreamStep(c)

\* the 5 s of wait_for pass: get() is still blocked on the empty queue
StreamTimerFires(c) ==
    /\ streams[c].pc = "waiting"
    /\ event_queue = <<>>
    /\ Keepalives(c) < MaxKeepalives
    /\ streams' = [streams EXCEPT ![c].pc = "timed_out"]
    /\ UNCHANGED event_queue
    /\ StreamStep(c)

\* wait_for raises TimeoutError and the generator yields the keepalive
StreamKeepalive(c) ==
    /\ streams[c].pc = "timed_out"
    /\ streams' = [streams EXCEPT ![c].pc = "checking",
                                  ![c].delivered = Append(@, Keepalive)]
    /\ UNCHANGED event_queue
    /\ StreamStep(c)

\* the response is torn down after the disconnect: the generator is
\* cancelled where it waits
StreamCancelled(c) ==
    /\ streams[c].pc \in {"waiting", "timed_out"}
    /\ ~streams[c].connected
    /\ streams' = [streams EXCEPT ![c].pc = "closed"]
    /\ UNCHANGED event_queue
    /\ StreamStep(c)

\* a session with one prompt and its deletion, read by stream connections
StreamNext ==
    \/ CreateSession
    \/ InitializeReturns
    \/ InitializeRaises
    \/ SubmitPrompt(1)
    \/ PromptStart(1)
    \/ PromptCompletes(1)
    \/ PromptFails(1)
    \/ \E d \in DeleteCalls : DeleteSession(d)
    \/ \E d \in DeleteCalls, raised \in BOOLEAN : CleanupEnds(d, raised)
    \/ \E c \in Conns : StreamOpens(c)
    \/ \E c \in Conns : ClientDisconnects(c)
    \/ \E c \in Conns : StreamChecks(c)
    \/ \E c \in Conns : StreamGets(c)
    \/ \E c \in Conns : StreamTimerFires(c)
    \/ \E c \in Conns : StreamKeepalive(c)
    \/ \E c \in Conns : StreamCancelled(c)

StreamSpec == Init /\ [][StreamNext]_vars

\* ---- deletion, with concurrent delete_session calls -----------------------
GetSessionStatusResponse(known) == IF known THEN 200 ELSE 404

\* what delete_session answers at its first check
DeleteSessionFinds(known) == IF known THEN 200 ELSE 404

DeleteInit == InitFor(Reqs, DeleteReqs)

\* a session with one prompt, deleted by calls that may overlap
DeleteNext ==
    \/ CreateSession
    \/ InitializeReturns
    \/ InitializeRaises
    \/ SubmitPrompt(1)
    \/ PromptStart(1)
    \/ PromptCompletes(1)
    \/ PromptFails(1)
    \/ \E d \in DeleteReqs : DeleteSession(d)
    \/ \E d \in DeleteReqs, raised \in BOOLEAN : CleanupEnds(d, raised)

DeleteSpec == DeleteInit /\ [][DeleteNext]_vars


\* ---- properties ---------------------------------------------------------
InFlight == {p \in PromptCalls : prompt_call[p].pc \in {"executing", "in_gate"}}

\* the events of the channel with this name emitted by this invocation
EventsOf(name, id) ==
    {i \in 1..Len(event_queue) :
        event_queue[i].event = name /\ event_queue[i].id = id}

\* this step put an event with this name on the channel
Emits(name) ==
    \E i \in (Len(event_queue) + 1)..Len(event_queue') :
        event_queue'[i].event = name

\* C1: at most one prompt() is in flight (accepted and not yet completed or
\* failed) at any time, and a prompt() that starts while the status is
\* processing or awaiting_approval ends at once as rejected, never queued.
C1_SingleFlight ==
    /\ [](Cardinality(InFlight) <= 1)
    /\ [][\A p \in PromptCalls :
            (/\ prompt_call[p].pc = "created"
             /\ prompt_call'[p].pc # "created"
             /\ status \in {"processing", "awaiting_approval"})
            => prompt_call'[p].pc = "rejected"]_vars

C1_Witness ==
    \E p, q \in PromptCalls :
        /\ prompt_call[p].pc = "in_gate"
        /\ prompt_call[q].pc = "rejected"
        /\ status = "awaiting_approval"

\* C2: a prompt() refused because the status is not idle changes neither the
\* status, the message count, the token counters, the pending approval, the
\* approval future nor the event channel.
C2_RejectedPromptChangesNothing ==
    [][\A p \in PromptCalls :
          (/\ prompt_call[p].pc = "created"
           /\ prompt_call'[p].pc = "rejected"
           /\ status # "idle")
          => UNCHANGED <<status, message_count, input_tokens, output_tokens,
                         pending_approval, approval_future, event_queue>>]_vars

C2_Witness ==
    \E p, q \in PromptCalls :
        /\ prompt_call[p].pc = "executing"
        /\ prompt_call[q].pc = "rejected"
        /\ status = "processing"
        /\ message_count = 1
        /\ Len(event_queue) = 1

\* C3: submit_prompt answers 404 for an unknown id and 409 for a known
\* session whose status is anything other than idle, so that no prompt task
\* is created and no success is returned in either case.
C3_SubmitPromptRefusesNonIdle ==
    /\ [](LET resp == SubmitPromptResponse(SessionId \in sessions, status)
          IN /\ SessionId \notin sessions => resp = 404
             /\ (SessionId \in sessions /\ status # "idle") => resp = 409)
    /\ [][\A p \in PromptCalls :
            (prompt_call[p].pc = "none" /\ prompt_call'[p].pc = "created")
            => (SessionId \in sessions /\ status = "idle")]_vars

\* the transitions of the session state machine
AllowedTransition(a, b) ==
    \/ b \in {"stopped", "error"}
    \/ <<a, b>> \in {<<"idle", "processing">>, <<"processing", "idle">>,
                    <<"processing", "awaiting_approval">>,
                    <<"awaiting_approval", "processing">>}

\* C4: every change of the status is one of idle->processing,
\* processing->idle, processing->awaiting_approval,
\* awaiting_approval->processing, any->stopped, any->error; in particular
\* never awaiting_approval->idle or stopped->idle.
C4_OnlyAllowedTransitions ==
    [][status' # status => AllowedTransition(status, status')]_vars

\* C5: whenever prompt:complete is emitted the status at that moment is
\* processing.
C5_CompleteOnlyWhileProcessing ==
    [][Emits("prompt:complete") => status = "processing"]_vars

\* C6: once the status is stopped no later step changes it.
C6_StoppedIsTerminal ==
    [][status = "stopped" => status' = "stopped"]_vars

\* C7: in every state between two steps the pending approval is set if and
\* only if the approval future is set.
C7_PendingIffFuture ==
    (pending_approval = NoPending) <=> (approval_future = NoFuture)

C7_Witness ==
    \E r \in Reqs :
        /\ approval_req[r].pc = "returned"
        /\ futures[r] = "cancelled"
        /\ pending_approval = NoPending
        /\ approval_future = NoFuture

\* C8: the status is awaiting_approval only while an approval is pending.
C8_AwaitingImpliesPending ==
    status = "awaiting_approval" => pending_approval # NoPending

\* C9: when the timeout of an approval elapses, the gate returns the default,
\* emits approval:denied with reason "timeout" and the default as decision,
\* and leaves the pending approval and the approval future both unset; that
\* request has exactly one approval:denied and no approval:granted.
C9_TimeoutAppliesDefault ==
    /\ [][\A r \in Reqs :
            (approval_req[r].pc = "timed_out" /\ approval_req'[r].pc = "returned")
            => /\ approval_req'[r].result = Default
               /\ event_queue' = Append(event_queue,
                      ApprovalEvent("approval:denied", r, Default, "timeout"))
               /\ pending_approval' = NoPending
               /\ approval_future' = NoFuture]_vars
    /\ [](\A r \in Reqs :
            (approval_req[r].pc = "returned" /\ futures[r] = "cancelled")
            => /\ Cardinality(EventsOf("approval:denied", r)) = 1
               /\ EventsOf("approval:granted", r) = {})

C9_Witness ==
    \E r \in Reqs :
        /\ approval_req[r].pc = "returned"
        /\ approval_req[r].result = Default
        /\ futures[r] = "cancelled"
        /\ ~always_allow_tools
        /\ Cardinality(EventsOf("approval:denied", r)) = 1

\* the timer has fired on the stored Future and its waiter has not resumed yet
TimerFired == approval_future # NoFuture /\ futures[approval_future] = "cancelled"

\* C10: resolution and timeout race and exactly one wins: a request whose
\* future was resolved has approval:granted and no approval:denied; once the
\* timer has fired, a submit_approval raises no internal error (no 500) and
\* does not set the always-allow flag.

C10_LoserIsDiscarded ==
    /\ [](\A r \in Reqs :
            (approval_req[r].pc = "returned" /\ futures[r] \in Decisions)
            => /\ Cardinality(EventsOf("approval:granted", r)) = 1
               /\ EventsOf("approval:denied", r) = {})
    /\ [](SubmitApprovalResponse(SessionId \in sessions, pending_approval,
                                 approval_future, futures) # 500)
    /\ [][TimerFired => always_allow_tools' = always_allow_tools]_vars

\* ---- progress of the approval wait --------------------------------------
\* The event loop runs every callback that is ready: a waiter whose Future
\* is resolved or cancelled resumes, and the timer of wait_for fires after
\* its timeout.  request_approval is the only coroutine that waits on them.
Fairness ==
    /\ \A r \in Reqs : WF_vars(ApprovalGranted(r))
    /\ \A r \in Reqs : WF_vars(TimerFires(r))
    /\ \A r \in Reqs : WF_vars(ApprovalTimesOut(r))

\* the session with every route, under the event loop's scheduling
FairSpec == Spec /\ Fairness

\* the request has emitted approval:required and has not returned
Suspended(r) == approval_req[r].pc \in {"waiting", "timed_out"}

\* the request returned a decision and has exactly one closing event, which
\* follows its approval:required on the channel
Closed(r) ==
    /\ approval_req[r].pc = "returned"
    /\ approval_req[r].result \in {"Allow", "Deny", Default}
    /\ Cardinality(EventsOf("approval:granted", r)
                   \cup EventsOf("approval:denied", r)) = 1
    /\ \A i \in EventsOf("approval:required", r) :
          \A j \in EventsOf("approval:granted", r)
                   \cup EventsOf("approval:denied", r) : i < j

\* C11: every request that emitted approval:required eventually returns a
\* decision, with exactly one of approval:granted and approval:denied after
\* its approval:required, and the return puts the prompt that was suspended
\* in the gate back to executing; whatever else interleaves.
C11_ApprovalEventuallyCloses ==
    /\ \A r \in Reqs : Suspended(r) ~> Closed(r)
    /\ [][\A r \in Reqs :
            (Suspended(r) /\ ~Suspended(r)')
            => /\ Closed(r)'
               /\ approval_req[r].caller # 0
                  => /\ prompt_call[approval_req[r].caller].pc = "in_gate"
                     /\ prompt_call'[approval_req[r].caller].pc = "executing"]_vars

\* a gate request closed by its timeout after the session was stopped
C11_Witness ==
    \E r \in Reqs :
        /\ Closed(r)
        /\ approval_req[r].caller # 0
        /\ status = "stopped"
        /\ EventsOf("session:end", 0) # {}
        /\ EventsOf("approval:denied", r) # {}

\* C12: submit_approval with no approval pending answers with an error and
\* changes nothing, not even the always-allow flag for AlwaysAllow; a Future
\* that was resolved is no longer stored, so a second call for it fails.
C12_NoPendingResolveFails ==
    /\ [](pending_approval = NoPending
          => SubmitApprovalResponse(SessionId \in sessions, pending_approval,
                                    approval_future, futures) \in {400, 404})
    /\ [][\A d \in Decisions :
            (pending_approval = NoPending /\ SubmitApproval(d))
            => UNCHANGED vars]_vars
    /\ [](\A r \in Reqs :
            futures[r] \in {"Allow", "Deny"}
            => /\ approval_future # r
               /\ pending_approval.req # r)

\* a resolved approval in a registered session: the next call gets 400
C12_Witness ==
    \E r \in Reqs :
        /\ futures[r] = "Allow"
        /\ ~always_allow_tools
        /\ pending_approval = NoPending
        /\ SubmitApprovalResponse(SessionId \in sessions, pending_approval,
                                  approval_future, futures) = 400

\* C13: a submit_approval made while an approval is pending resolves the
\* stored Future, with Allow for AlwaysAllow and with the decision itself
\* otherwise, and sets the always-allow flag for AlwaysAllow only; no waiter
\* ever receives AlwaysAllow.
C13_AlwaysAllowResolvesAsAllow ==
    /\ [][\A d \in Decisions :
            (/\ pending_approval # NoPending
             /\ approval_future # NoFuture
             /\ SubmitApproval(d))
            => /\ futures'[approval_future] =
                      IF d = "AlwaysAllow" THEN "Allow" ELSE d
               /\ always_allow_tools' =
                      (always_allow_tools \/ d = "AlwaysAllow")]_vars
    /\ [](\A r \in Reqs : approval_req[r].result # "AlwaysAllow")

\* C14: once the always-allow flag is true it stays true, and from then on no
\* tool intent suspends its prompt in the gate and no request_approval is
\* begun for a prompt (no approval:required comes from the gate).
C14_AlwaysAllowIsSticky ==
    /\ [][always_allow_tools => always_allow_tools']_vars
    /\ [][always_allow_tools
          => /\ \A p \in PromptCalls :
                   prompt_call[p].pc = "executing"
                   => prompt_call'[p].pc # "in_gate"
             /\ \A r \in GateReqs :
                   (approval_req[r].pc # "waiting" /\ approval_req'[r].pc = "waiting")
                   => approval_req'[r].caller = 0]_vars

\* AlwaysAllow was delivered as Allow to a gate request, and a later tool
\* intent of a prompt went through the gate to the bridge
C14_Witness ==
    /\ always_allow_tools
    /\ "gate" \in hooks
    /\ \E r \in GateReqs, p \in PromptCalls :
          /\ approval_req[r].caller # 0
          /\ approval_req[r].result = "Allow"
          /\ \E i \in EventsOf("approval:granted", r), j \in EventsOf("tool:pre", p) :
                i < j

\* C15: the gate's handler answers ask_user exactly when the tool name is one
\* of write_file, edit_file, bash, git and the always-allow flag is false,
\* and continue for every other or missing tool name and whenever the flag is
\* true; the input of the signal plays no part.
C15_GateDirective ==
    gate_call.directive # NULL
    => gate_call.directive =
          IF /\ gate_call.tool_name \in {"write_file", "edit_file", "bash", "git"}
             /\ ~always_allow_tools
          THEN "ask_user" ELSE "continue"

C15_Witness ==
    /\ gate_call.tool_name = "git"
    /\ gate_call.input = "command"
    /\ ~always_allow_tools
    /\ gate_call.directive = "ask_user"

\* C16: at any time at most one request_approval is suspended waiting for a
\* decision, and while a request waits on the Future the runner stores, no
\* other request replaces that Future or the pending record.
C16_OneOutstandingApproval ==
    /\ [](Cardinality({r \in GateReqs : approval_req[r].pc = "waiting"}) <= 1)
    /\ [][\A r \in GateReqs :
            (/\ approval_req[r].pc = "waiting"
             /\ approval_req'[r].pc = "waiting"
             /\ approval_future = r)
            => /\ approval_future' \in {r, NoFuture}
               /\ pending_approval'.req \in {r, 0}]_vars

\* delete_session has called stop()
StopCalled == \E d \in DeleteCalls : delete_call[d].pc # "none"

\* C17: the steps of stop() change neither the pending approval, the approval
\* future nor the state of any Future, and the unresolved Future of a request
\* the gate made before stop() unregistered it is, once stop() is called,
\* never resolved: it stays pending until its timer cancels it.
C17_StopLeavesApprovalAlone ==
    /\ [][(\E d \in DeleteCalls : delete_call'[d] # delete_call[d])
          => UNCHANGED <<pending_approval, approval_future, futures,
                         approval_req>>]_vars
    /\ [][\A r \in Reqs :
            (/\ StopCalled
             /\ "gate" \notin hooks
             /\ approval_req[r].caller # 0
             /\ approval_req[r].pc = "waiting"
             /\ futures[r] = "pending")
            => futures'[r] \in {"pending", "cancelled"}]_vars

\* C18: once stop() has put session:end on the channel, no step puts another
\* event on it.
C18_SessionEndIsLast ==
    [][EventsOf("session:end", 0) # {} => event_queue' = event_queue]_vars

\* the events this step put on the channel
Emitted == SubSeq(event_queue', Len(event_queue) + 1, Len(event_queue'))

\* C19: whichever unregister functions raise and whether or not the cleanup
\* raises, stop() empties the unregister list before the cleanup and ends
\* with the status stopped, the engine session dropped and session:end as
\* the event it emits last, after a warning exactly when the cleanup raised;
\* a handler stays registered only if its unregister function raised.
C19_StopAlwaysStops ==
    /\ [][\A d \in DeleteCalls :
            (delete_call[d].pc # "done" /\ delete_call'[d].pc = "done")
            => /\ status' = "stopped"
               /\ ~session'
               /\ hook_unregisters' = 0
               /\ hooks' \subseteq hooks
               /\ Emitted # <<>>
               /\ Emitted[Len(Emitted)] =
                     UsageEvent("session:end", 0, input_tokens, output_tokens)
               /\ CleanupEnds(d, TRUE)
                  => Emitted[1].event = "warning" /\ Len(Emitted) = 2
               /\ ~CleanupEnds(d, TRUE) => Len(Emitted) = 1]_vars
    /\ [](\A d \in DeleteCalls :
            delete_call[d].pc # "none" => hook_unregisters = 0)

\* stop() finished although an unregister function and the cleanup raised
C19_Witness ==
    \E d \in DeleteCalls :
        /\ delete_call[d].pc = "done"
        /\ hooks # {}
        /\ hook_unregisters = 0
        /\ status = "stopped"
        /\ \E i \in EventsOf("warning", 0), j \in EventsOf("session:end", 0) :
              j = i + 1

\* C20: when start() fails, at whichever step, the step that ends it sets
\* the status to error and puts an error event on the channel, and the
\* session id is never in the registry.
C20_FailedStartIsError ==
    /\ [][(create_pc # "failed" /\ create_pc' = "failed")
          => /\ status' = "error"
             /\ Emitted = <<Event("error", 0)>>
             /\ sessions' = sessions]_vars
    /\ [](create_pc = "failed"
          => /\ status = "error"
             /\ EventsOf("error", 0) # {}
             /\ SessionId \notin sessions)

\* start() failed in session.initialize(), after the hooks were registered
C20_Witness ==
    /\ create_pc = "failed"
    /\ session
    /\ hooks = {"bridge", "gate"}
    /\ status = "error"
    /\ event_queue = <<Event("error", 0)>>

\* C21: when execute() raises for an accepted prompt, that step sets the
\* status to error and emits the one error event of the prompt; the prompt
\* has no prompt:complete; and from then on the status leaves error only for
\* stopped, and every prompt() that starts meanwhile is rejected.
C21_FailedPromptLeavesError ==
    /\ [][\A p \in PromptCalls :
            (prompt_call[p].pc = "executing" /\ prompt_call'[p].pc = "failed")
            => /\ status' = "error"
               /\ Emitted = <<Event("error", p)>>]_vars
    /\ [](\A p \in PromptCalls :
            prompt_call[p].pc = "failed"
            => /\ Cardinality(EventsOf("error", p)) = 1
               /\ EventsOf("prompt:complete", p) = {})
    /\ [][(status = "error" /\ status' # "error") => status' = "stopped"]_vars
    /\ [][\A p \in PromptCalls :
            (/\ status = "error"
             /\ prompt_call[p].pc = "created"
             /\ prompt_call'[p].pc # "created")
            => prompt_call'[p].pc = "rejected"]_vars

\* C22: message_count is always the number of prompt:submit events emitted;
\* it changes only in the step that accepts a prompt, by one, together with
\* the status processing and the prompt:submit event, and a rejected prompt
\* leaves it alone.
C22_MessageCountIsSubmits ==
    /\ [](message_count =
            Cardinality({i \in 1..Len(event_queue) :
                            event_queue[i].event = "prompt:submit"}))
    /\ [][message_count' # message_count
          => /\ message_count' = message_count + 1
             /\ status' = "processing"
             /\ \E p \in PromptCalls :
                   /\ prompt_call[p].pc = "created"
                   /\ prompt_call'[p].pc = "executing"
                   /\ Emitted = <<Event("prompt:submit", p)>>]_vars
    /\ [][\A p \in PromptCalls :
            (prompt_call[p].pc # "rejected" /\ prompt_call'[p].pc = "rejected")
            => message_count' = message_count]_vars

C22_Witness ==
    /\ message_count = 2
    /\ \A p \in PromptCalls : Cardinality(EventsOf("prompt:submit", p)) = 1
    /\ \E p \in PromptCalls : prompt_call[p].pc = "executing"

\* C23: the step that completes a prompt sets the runner's token counters to
\* the bridge's accumulator as it is then, and emits prompt:complete with
\* those same numbers.
C23_CompleteCarriesAccumulator ==
    [][\A p \in PromptCalls :
          (prompt_call[p].pc = "executing" /\ prompt_call'[p].pc = "done")
          => /\ input_tokens' = token_state.input_tokens
             /\ output_tokens' = token_state.output_tokens
             /\ Emitted = <<UsageEvent("prompt:complete", p,
                                       token_state.input_tokens,
                                       token_state.output_tokens)>>]_vars

\* this step is the bridge handling a signal
Handled == signals' = signals + 1

\* C24: the token accumulator changes only when the bridge handles a
\* content-block end that carries usage and is the last block of its turn
\* (index = total_blocks - 1), and then grows by exactly that usage; block
\* starts, deltas, tool signals and other block ends leave it as it is, and
\* it never decreases.
C24_AccumulatorOnlyOnLastBlock ==
    /\ [][LET d == bridge_call'.data
              counts == /\ Handled
                        /\ d.signal = "content_block:end"
                        /\ d.usage.present
                        /\ d.total_blocks # 0
                        /\ d.block_index = d.total_blocks - 1
          IN /\ counts
                => token_state' =
                      [input_tokens |-> token_state.input_tokens
                                        + d.usage.input_tokens,
                       output_tokens |-> token_state.output_tokens
                                         + d.usage.output_tokens]
             /\ ~counts => token_state' = token_state]_vars
    /\ [][/\ token_state'.input_tokens >= token_state.input_tokens
          /\ token_state'.output_tokens >= token_state.output_tokens]_vars

\* a block end with usage that is not the last of its turn, handled after
\* one that was: the usage counted once
C24_Witness ==
    /\ token_state = [input_tokens |-> 10, output_tokens |-> 5]
    /\ signals = 2
    /\ bridge_call.data.signal = "content_block:end"
    /\ bridge_call.data.usage.present
    /\ bridge_call.data.block_index = 0
    /\ bridge_call.data.total_blocks = 2

\* the thinking:delta events among those emitted by this step
ThinkingEmitted == SelectSeq(Emitted, LAMBDA e : e.event = "thinking:delta")

\* a thinking block's start signal begins an empty accumulation for its
\* index, each thinking delta extends the accumulation at its end, and
\* neither emits a thinking:delta event
C25_AccumulatesSilently ==
    LET d == bridge_call'.data
    IN /\ (Handled /\ d.signal = "content_block:start" /\ d.type = "thinking")
          => /\ thinking_state' = [current_thinking |-> <<>>,
                                   current_block_index |-> d.block_index]
             /\ ThinkingEmitted = <<>>
       /\ (Handled /\ d.signal = "content_block:delta"
                   /\ d.type = "thinking_delta")
          => /\ thinking_state' =
                   [thinking_state EXCEPT !.current_thinking = @ \o d.text]
             /\ ThinkingEmitted = <<>>

\* this step handles the end signal of the tracked thinking block, directly
\* after one of its deltas, and the display system works
C25_BlockEnds ==
    /\ Handled
    /\ bridge_call'.data.signal = "content_block:end"
    /\ ~bridge_call'.data.display_fails
    /\ bridge_call'.data.block_index = thinking_state.current_block_index
    /\ bridge_call.data.signal = "content_block:delta"
    /\ bridge_call.data.type = "thinking_delta"

IsPrefix(a, b) == Len(a) <= Len(b) /\ SubSeq(b, 1, Len(a)) = a

\* connection 1 is the only one opened
SingleReader == \A c \in Conns \ {1} : streams'[c].pc = "none"

\* C26: with a single stream reader, what the reader has dequeued followed
\* by what is still queued is the sequence of events emitted: a step of the
\* reader leaves that sequence as it is and only moves its front part
\* forward, a step of the session only appends to the queue.  So the reader's
\* sequence is always a prefix of the emitted one, in emission order, with no
\* event reordered, duplicated or skipped.
C26_ReaderDequeuesPrefix ==
    [][SingleReader
       => LET taken == streams[1].dequeued
              taken_after == streams'[1].dequeued
          IN /\ IsPrefix(taken, taken_after)
             /\ streams' # streams
                => taken_after \o event_queue' = taken \o event_queue
             /\ streams' = streams => IsPrefix(event_queue, event_queue')]_vars

\* the single reader has taken four events, the last one session:end
C26_Witness ==
    /\ \A c \in Conns \ {1} : streams[c].pc = "none"
    /\ Len(streams[1].dequeued) = 4
    /\ streams[1].dequeued[1].event = "prompt:submit"
    /\ streams[1].dequeued[4].event = "session:end"

C28_DeletedIdIsGone ==
    (\E d \in DOMAIN delete_call : delete_call[d].pc \in {"done", "failed"})
    => /\ SessionId \notin sessions
       /\ GetSessionStatusResponse(SessionId \in sessions) = 404
       /\ SubmitPromptResponse(SessionId \in sessions, status) = 404
       /\ SubmitApprovalResponse(SessionId \in sessions, pending_approval,
                                 approval_future, futures) = 404
       /\ SessionEventsResponse(SessionId \in sessions) = 404
       /\ DeleteSessionFinds(SessionId \in sessions) = 404

\* two overlapping calls have returned, one with 200 and one with 500
C28_Witness ==
    /\ \E d \in DOMAIN delete_call : delete_call[d].pc = "done"
    /\ \E d \in DOMAIN delete_call : delete_call[d].pc = "failed"
    /\ SessionId \notin sessions

\* C29: every call of a bridge handler (content-block start, delta, end,
\* tool pre, tool post) returns HookResult(action="continue"), whatever the
\* signal carries and whatever the bridge has accumulated, also when the
\* display system's method raises; no other directive is ever returned.
C29_BridgeAlwaysContinues ==
    /\ [][Handled
          => /\ bridge_call'.data.signal \in
                   {"content_block:start", "content_block:delta",
                    "content_block:end", "tool:pre", "tool:post"}
             /\ bridge_call'.action = "continue"]_vars
    /\ [](bridge_call.action \in {NULL, "continue"})

\* display_tool_end raised: no tool:post event, and the handler continued
C29_Witness ==
    /\ bridge_call.data.signal = "tool:post"
    /\ bridge_call.data.display_fails
    /\ bridge_call.action = "continue"
    /\ signals = 1
    /\ EventsOf("tool:post", 1) = {}

\* C30: the status is idle only after start() has completed successfully;
\* before start() is called, while it runs and after it has failed the
\* status is never idle.
C30_IdleOnlyAfterStart == status = "idle" => create_pc = "created"

\* C31: the session:end event emitted by stop() carries the usage the bridge
\* has accumulated up to then, also the usage applied during a prompt that
\* failed or is still executing.
C31_SessionEndCarriesAccumulator ==
    [][\A k \in 1..Len(Emitted) :
          Emitted[k].event = "session:end"
          => /\ Emitted[k].input_tokens = token_state.input_tokens
             /\ Emitted[k].output_tokens = token_state.output_tokens]_vars

\* C33: start() registers the bridge's handlers and the gate before it
\* begins the engine's initialization: while initialize() runs, and after it
\* has returned until a stop() begins, both are registered, so the signals
\* of an executing prompt reach both.
C33_HooksBeforeInitialize ==
    /\ [][create_pc' = "initializing" /\ create_pc # "initializing"
          => hooks' = {"bridge", "gate"} /\ hook_unregisters' = 6]_vars
    /\ []((/\ create_pc \in {"initializing", "created"}
           /\ \A d \in DOMAIN delete_call : delete_call[d].pc = "none")
          => hooks = {"bridge", "gate"})

\* initialize() is running and all six handlers are registered
C33_Witness ==
    /\ create_pc = "initializing"
    /\ hooks = {"bridge", "gate"}
    /\ hook_unregisters = 6
    /\ ~(SessionId \in sessions)

\* C34: the end signal of the tracked thinking block resets the thinking
\* state (no accumulated text, no index tracked), whether or not a text was
\* flushed.
C34_EndResetsThinkingState ==
    [][(/\ Handled
        /\ bridge_call'.data.signal = "content_block:end"
        /\ bridge_call'.data.block_index = thinking_state.current_block_index)
       => thinking_state' = ThinkingInit]_vars

\* C36: a thinking:delta event is emitted only at the end of a block that
\* was started as a thinking block; the end signal of a block that was just
\* started as a plain text block emits none, whatever came before it.
C36_TextBlockEmitsNoThinking ==
    [][(/\ Handled
        /\ bridge_call.data.signal = "content_block:start"
        /\ bridge_call.data.type = "text"
        /\ bridge_call'.data.signal = "content_block:end"
        /\ bridge_call'.data.block_index = bridge_call.data.block_index)
       => ThinkingEmitted = <<>>]_vars

\* C35: an event is never removed from the queue without being delivered:
\* the connection that dequeues it yields it to a client that is still
\* there.
C35_DequeuedIsDelivered ==
    [][\A c \in Conns :
          streams'[c].dequeued # streams[c].dequeued
          => /\ streams'[c].delivered =
                   Append(streams[c].delivered, Message(Head(event_queue)))
             /\ streams[c].connected]_vars

\* C37: whenever the status is processing or awaiting_approval a prompt()
\* of the session is in flight; no sequence of operations leaves the session
\* in one of these states with no prompt running.
C37_BusyMeansPromptInFlight ==
    status \in {"processing", "awaiting_approval"} => InFlight # {}

\* C38: a decision is applied only to the approval it was submitted for: a
\* submit_approval sent in response to an approval a that has timed out
\* resolves no other approval's Future and does not set the always-allow
\* flag.
C38_DecisionOnlyForItsApproval ==
    [][\A a \in DOMAIN approval_req, d \in Decisions :
          (/\ approval_req[a].pc = "returned"
           /\ futures[a] = "cancelled"
           /\ SubmitApproval(d))
          => /\ \A b \in DOMAIN approval_req \ {a} : futures'[b] = futures[b]
             /\ always_allow_tools' = always_allow_tools]_vars

\* C39: once stop() has begun and waits for the engine's cleanup, no
\* prompt() is accepted: no prompt task moves the session to processing and
\* calls execute().
C39_NoPromptOnceStopBegun ==
    [][(\E d \in DOMAIN delete_call : delete_call[d].pc = "cleanup")
       => \A p \in PromptCalls :
             prompt_call[p].pc = "created" => prompt_call'[p].pc # "executing"]_vars

\* C40: under every interleaving of delete_session calls for the session,
\* session:end is emitted at most once and the engine's cleanup is called at
\* most once.
C40_StopRunsOnce ==
    /\ Cardinality(EventsOf("session:end", 0)) <= 1
    /\ Cardinality({d \in DOMAIN delete_call :
                       delete_call[d].pc \in {"cleanup", "done", "failed"}}) <= 1

====
